---- MODULE Spec2Model ----
(***************************************************************************)
(* TableViewerModel of cloudbeaver: the view-model between the paginated   *)
(* data grid and the remote table.  One state machine: window fetches      *)
(* (onRequestData), cell edits, the commit cycle (onSaveChanges with its   *)
(* retry dialog), revert, refresh and the chunk size.                      *)
(*                                                                         *)
(* Every handler is cut at its awaits: the part before an await is one     *)
(* action, the continuation after the promise settles is another.          *)
(* TableDataModel and TableEditor are imported by the class but their      *)
(* files are not part of the sources at hand; their operators follow the   *)
(* store / edit tracker contracts of the design document (sections 4.1,    *)
(* 4.2).                                                                   *)
(***************************************************************************)
EXTENDS Integers, Sequences, FiniteSets, Bags, TLC

(***************************************************************************)
(* Bounds of the model.                                                    *)
(***************************************************************************)
\* largest row count the remote table is asked for (offset + count)
MaxRows == 2
\* number of window requests that may be awaiting requestDataAsync at once
MaxInFlight == 2

(***************************************************************************)
(* Value domains.                                                          *)
(***************************************************************************)
\* an array slot never written (a hole of the sparse row array)
Undef == <<>>
\* column ordinals of a row
Cols == {1, 2}
\* rows the remote side answers with
ServerRows == {<<"a", "a">>, <<"b", "b">>}
\* the value typed into a cell
EditValues == {"x"}
\* column sets the remote side answers with
ServerColumns == {<<"id">>, <<"id", "name">>}
\* duration is optional in IRequestDataResult
NoDuration == -1
\* (statusMessage, duration) pairs the remote side answers with
ServerInfos == {[statusMessage |-> "ok", duration |-> 7],
                [statusMessage |-> "", duration |-> NoDuration]}
\* what a rejected promise carries: a GQLError with or without details, or
\* any other Error
RemoteErrors == {[kind |-> "GQLError", details |-> TRUE],
                 [kind |-> "GQLError", details |-> FALSE],
                 [kind |-> "Error", details |-> FALSE]}
\* the Error zipDiffAndResults throws
MismatchError == [kind |-> "LengthMismatch", details |-> FALSE]
NoException == [kind |-> "null", details |-> FALSE]
NoDialog == [open |-> FALSE]

\* fetchingSettings
fetchMin == 1
fetchMax == 5000
fetchDefault == 200

Max(a, b) == IF a >= b THEN a ELSE b
Min(a, b) == IF a <= b THEN a ELSE b

\* (rowOffset, count) pairs the grid asks for
Windows == {w \in [offset : 0..(MaxRows - 1), count : 1..MaxRows] :
              w.offset + w.count <= MaxRows}
\* the rows of a response to a request of `count` rows: at most count rows
RowSeqs(count) == UNION {[1..n -> ServerRows] : n \in 0..count}

VARIABLES
  rows,                 \* tableDataModel: the sparse row array
  columns,              \* tableDataModel: the columns
  editedRows,           \* tableEditor: the pending RowDiffs, in edit order
  hasMoreRows,          \* _hasMoreRows
  isLoaderVisible,      \* _isLoaderVisible
  chunkSize,            \* _chunkSize
  queryDuration,
  requestStatusMessage,
  errorMessage,
  hasDetails,
  exception,
  noLoader,             \* init.noLoaderWhileRequestingDataAsync
  actions,              \* agGridModel.actions is set
  fetches,              \* bag of windows awaiting requestDataAsync
  pc,                   \* position of onSaveChanges
  diffs,                \* the local `diffs` of the running onSaveChanges
  dialog,               \* the ErrorDialog the commit cycle awaits
  last,                 \* history: the step just taken, its inputs and calls
  inserted,             \* history: indices merged by fetches since the reset
  startRows             \* history: the row array when the cycle started

vars == <<rows, columns, editedRows, hasMoreRows, isLoaderVisible, chunkSize,
          queryDuration, requestStatusMessage, errorMessage, hasDetails,
          exception, noLoader, actions, fetches, pc, diffs, dialog, last,
          inserted, startRows>>

(***************************************************************************)
(* TableDataModel: the row / column store (design document 4.1).           *)
(* Row indices are 0-based, as in the source; index i is position i + 1.   *)
(***************************************************************************)
\* rows[i], undefined past the end of the array
getRow(rs, i) == IF i < Len(rs) THEN rs[i + 1] ELSE Undef

\* true iff every row index in [offset, offset + count) has been materialized
isChunkLoaded(rs, offset, count) ==
  \A i \in offset..(offset + count - 1) : getRow(rs, i) # Undef

\* the slots of the array in [offset, offset + count)
getChunk(rs, offset, count) ==
  SubSeq(rs, offset + 1, Min(offset + count, Len(rs)))

\* writes newRows starting at position, extending the array if needed and
\* overwriting what is already there
TableDataModel_insertRows(rs, position, newRows) ==
  LET n == Len(newRows)
      len == IF n = 0 THEN Len(rs) ELSE Max(Len(rs), position + n)
  IN [k \in 1..len |->
        IF k - 1 >= position /\ k - 1 < position + n
          THEN newRows[k - position]
          ELSE getRow(rs, k - 1)]

\* targeted overwrite: mapping is a function row index -> row
updateRows(rs, mapping) ==
  LET idx == DOMAIN mapping
      len == IF idx = {} THEN Len(rs)
             ELSE Max(Len(rs), 1 + CHOOSE i \in idx : \A j \in idx : j <= i)
  IN [k \in 1..len |->
        IF (k - 1) \in idx THEN mapping[k - 1] ELSE getRow(rs, k - 1)]

(***************************************************************************)
(* TableEditor: the edit tracker (design document 4.2).                    *)
(***************************************************************************)
\* first edit of a row snapshots it as source; later edits update edited
editCellValue(ed, rs, row, col, value) ==
  IF \E k \in 1..Len(ed) : ed[k].rowIndex = row
    THEN LET k == CHOOSE j \in 1..Len(ed) : ed[j].rowIndex = row
         IN [ed EXCEPT ![k].edited[col] = value]
    ELSE Append(ed, [rowIndex |-> row,
                     source |-> getRow(rs, row),
                     edited |-> [getRow(rs, row) EXCEPT ![col] = value]])

\* the pending set, in a stable order
getChanges(ed) == ed

\* clears the pending set, writes nothing back
cancelChanges(ed) == <<>>

(***************************************************************************)
(* TableViewerModel: the helpers of the class.                             *)
(***************************************************************************)
\* getDefaultRowsCount without the lower bound
getDefaultRowsCount_noFetchMin(count) ==
  IF count # 0 THEN Min(count, fetchMax) ELSE fetchDefault

\* count ? max(fetchMin, min(count, fetchMax)) : fetchDefault
\* (an absent count is falsy like 0)
getDefaultRowsCount(count) ==
  IF count # 0 THEN Max(fetchMin, Min(count, fetchMax)) ELSE fetchDefault

\* the cache test without the isChunkLoaded disjunct
isCacheHit_fullyLoadedOnly(rs, hm, offset, count) == ~hm

\* onRequestData: isChunkLoaded(rowOffset, count) || isFullyLoaded
isCacheHit(rs, hm, offset, count) == isChunkLoaded(rs, offset, count) \/ ~hm

\* insertRows adopting hasMore whatever the range
insertRows_alwaysAdopt(rs, hm, position, newRows, hasMore) ==
  [rows |-> TableDataModel_insertRows(rs, position, newRows),
   hasMoreRows |-> hasMore]

\* insertRows with <= in place of <: a range ending at the current end
\* counts as an addition
insertRows_adoptAtEnd(rs, hm, position, newRows, hasMore) ==
  LET isRowsAddition == Len(rs) <= position + Len(newRows)
  IN [rows |-> TableDataModel_insertRows(rs, position, newRows),
      hasMoreRows |-> IF isRowsAddition THEN hasMore ELSE hm]

\* insertRows: hasMore is adopted only when the range extends the array
insertRows(rs, hm, position, newRows, hasMore) ==
  LET isRowsAddition == Len(rs) < position + Len(newRows)
  IN [rows |-> TableDataModel_insertRows(rs, position, newRows),
      hasMoreRows |-> IF isRowsAddition THEN hasMore ELSE hm]

\* updateInfo: queryDuration = duration || 0
updateInfo(status, duration) ==
  [queryDuration |-> IF duration = NoDuration THEN 0 ELSE duration,
   requestStatusMessage |-> status]

\* exception.errorText of a GQLError, `${name}: ${message}` of any other
errorText(e) ==
  IF e.kind = "GQLError" THEN "GQLError text"
  ELSE IF e.kind = "LengthMismatch"
    THEN "Error: expected that new rows have same length as diff"
    ELSE "Error: request failed"

\* showError taking hasDetails from the kind of the error alone
showError_detailsOfAnyGQLError(e) ==
  IF e.kind = "GQLError"
    THEN [errorMessage |-> errorText(e), exception |-> e,
          hasDetails |-> TRUE]
    ELSE [errorMessage |-> errorText(e), exception |-> NoException,
          hasDetails |-> FALSE]

\* showError
showError(e) ==
  IF e.kind = "GQLError"
    THEN [errorMessage |-> errorText(e), exception |-> e,
          hasDetails |-> e.details]
    ELSE [errorMessage |-> errorText(e), exception |-> NoException,
          hasDetails |-> FALSE]

\* zipDiffAndResults keyed by the position in the result instead of the
\* diff's rowIndex
zipDiffAndResults_byPosition(diff, newRows) ==
  [i \in 0..(Len(diff) - 1) |-> newRows[i + 1]]

\* zipDiffAndResults, once the lengths are known to agree: Map.set in the
\* order of the diffs, a later entry replacing an earlier one of the same key
zipDiffAndResults(diff, newRows) ==
  [i \in {diff[k].rowIndex : k \in 1..Len(diff)} |->
     newRows[CHOOSE k \in 1..Len(diff) :
               /\ diff[k].rowIndex = i
               /\ \A j \in 1..Len(diff) : diff[j].rowIndex = i => j <= k]]

\* revertChanges pushing the edited row instead of the source
initialRows_edited(diff) ==
  [i \in {diff[k].rowIndex : k \in 1..Len(diff)} |->
     diff[CHOOSE k \in 1..Len(diff) : diff[k].rowIndex = i].edited]

\* the Map revertChanges builds: rowIndex -> source
initialRows(diff) ==
  [i \in {diff[k].rowIndex : k \in 1..Len(diff)} |->
     diff[CHOOSE k \in 1..Len(diff) :
            /\ diff[k].rowIndex = i
            /\ \A j \in 1..Len(diff) : diff[j].rowIndex = i => j <= k].source]

\* updateAgGridRows: the updateRowValue(rowNumber, row) calls the grid gets
updateAgGridRows(someRows, act) ==
  IF act THEN someRows ELSE <<>>

(***************************************************************************)
(* Construction.                                                           *)
(***************************************************************************)
\* the optional init.initialState
InitialStates ==
  [rows : RowSeqs(MaxRows), columns : ServerColumns, isFullyLoaded : BOOLEAN,
   info : ServerInfos]

Fresh ==
  /\ rows = <<>>
  /\ columns = <<>>
  /\ hasMoreRows = TRUE
  /\ queryDuration = 0
  /\ requestStatusMessage = ""

Constructed(st) ==
  LET ins == insertRows(<<>>, TRUE, 0, st.rows, ~st.isFullyLoaded)
      info == updateInfo(st.info.statusMessage, st.info.duration)
  IN /\ rows = ins.rows
     /\ hasMoreRows = ins.hasMoreRows
     /\ columns = st.columns
     /\ queryDuration = info.queryDuration
     /\ requestStatusMessage = info.requestStatusMessage

Init ==
  /\ noLoader \in BOOLEAN
  /\ Fresh \/ \E st \in InitialStates : Constructed(st)
  /\ editedRows = <<>>
  /\ isLoaderVisible = FALSE
  /\ chunkSize = getDefaultRowsCount(0)
  /\ errorMessage = ""
  /\ hasDetails = FALSE
  /\ exception = NoException
  /\ actions = FALSE
  /\ fetches = EmptyBag
  /\ pc = "Idle"
  /\ diffs = <<>>
  /\ dialog = NoDialog
  /\ last = [op |-> "constructor"]
  /\ inserted = {}
  /\ startRows = <<>>

(***************************************************************************)
(* The grid plugin sets agGridModel.actions, then drives the handlers.     *)
(***************************************************************************)
AttachGrid ==
  /\ ~actions
  /\ actions' = TRUE
  /\ last' = [op |-> "attach"]
  /\ UNCHANGED <<rows, columns, editedRows, hasMoreRows, isLoaderVisible,
                 chunkSize, queryDuration, requestStatusMessage, errorMessage,
                 hasDetails, exception, noLoader, fetches, pc, diffs, dialog,
                 inserted, startRows>>

(***************************************************************************)
(* onRequestData, up to its await: a cache hit returns, a miss sets the    *)
(* loader flag and calls requestDataAsync.                                 *)
(***************************************************************************)
RequestData(w) ==
  /\ actions
  /\ IF isCacheHit(rows, hasMoreRows, w.offset, w.count)
       THEN /\ last' = [op |-> "onRequestData", offset |-> w.offset,
                        count |-> w.count, hit |-> TRUE,
                        data |-> [rows |-> getChunk(rows, w.offset, w.count),
                                  columns |-> columns,
                                  isFullyLoaded |-> ~hasMoreRows]]
            /\ UNCHANGED <<isLoaderVisible, fetches>>
       ELSE /\ BagCardinality(fetches) < MaxInFlight
            /\ isLoaderVisible' = ~noLoader
            /\ fetches' = fetches (+) SetToBag({w})
            /\ last' = [op |-> "onRequestData", offset |-> w.offset,
                        count |-> w.count, hit |-> FALSE]
  /\ UNCHANGED <<rows, columns, editedRows, hasMoreRows, chunkSize,
                 queryDuration, requestStatusMessage, errorMessage, hasDetails,
                 exception, noLoader, actions, pc, diffs, dialog, inserted,
                 startRows>>

\* what requestDataAsync(offset, count) may resolve with
Responses(w) ==
  [rows : RowSeqs(w.count), columns : ServerColumns, isFullyLoaded : BOOLEAN,
   info : ServerInfos]

\* onRequestData overwriting the columns with those of every response
FetchResolved_overWriteAlways(w, response) ==
  /\ BagIn(w, fetches)
  /\ LET ins == insertRows(rows, hasMoreRows, w.offset, response.rows,
                           ~response.isFullyLoaded)
         info == updateInfo(response.info.statusMessage, response.info.duration)
     IN /\ rows' = ins.rows
        /\ hasMoreRows' = ins.hasMoreRows
        /\ columns' = response.columns
        /\ errorMessage' = ""
        /\ queryDuration' = info.queryDuration
        /\ requestStatusMessage' = info.requestStatusMessage
  /\ isLoaderVisible' = FALSE
  /\ fetches' = fetches (-) SetToBag({w})
  /\ inserted' = inserted \cup (w.offset..(w.offset + Len(response.rows) - 1))
  /\ last' = [op |-> "fetchResolved", offset |-> w.offset,
              n |-> Len(response.rows),
              isFullyLoaded |-> response.isFullyLoaded,
              columns |-> response.columns,
              info |-> response.info,
              afterReset |-> (last.op = "resetData")]
  /\ UNCHANGED <<editedRows, chunkSize, hasDetails, exception, noLoader,
                 actions, pc, diffs, dialog, startRows>>

(***************************************************************************)
(* onRequestData after requestDataAsync resolved.                          *)
(***************************************************************************)
FetchResolved(w, response) ==
  /\ BagIn(w, fetches)
  /\ LET ins == insertRows(rows, hasMoreRows, w.offset, response.rows,
                           ~response.isFullyLoaded)
         info == updateInfo(response.info.statusMessage, response.info.duration)
     IN /\ rows' = ins.rows
        /\ hasMoreRows' = ins.hasMoreRows
        /\ columns' = IF Len(columns) = 0 THEN response.columns ELSE columns
        /\ errorMessage' = ""
        /\ queryDuration' = info.queryDuration
        /\ requestStatusMessage' = info.requestStatusMessage
  /\ isLoaderVisible' = FALSE
  /\ fetches' = fetches (-) SetToBag({w})
  /\ inserted' = inserted \cup (w.offset..(w.offset + Len(response.rows) - 1))
  /\ last' = [op |-> "fetchResolved", offset |-> w.offset,
              n |-> Len(response.rows),
              isFullyLoaded |-> response.isFullyLoaded,
              columns |-> response.columns,
              info |-> response.info,
              afterReset |-> (last.op = "resetData")]
  /\ UNCHANGED <<editedRows, chunkSize, hasDetails, exception, noLoader,
                 actions, pc, diffs, dialog, startRows>>

(***************************************************************************)
(* onRequestData after requestDataAsync rejected: showError, rethrow.      *)
(***************************************************************************)
FetchRejected(w, e) ==
  /\ BagIn(w, fetches)
  /\ LET err == showError(e)
     IN /\ errorMessage' = err.errorMessage
        /\ exception' = err.exception
        /\ hasDetails' = err.hasDetails
  /\ isLoaderVisible' = FALSE
  /\ fetches' = fetches (-) SetToBag({w})
  /\ last' = [op |-> "fetchRejected", offset |-> w.offset, count |-> w.count,
              thrown |-> e]
  /\ UNCHANGED <<rows, columns, editedRows, hasMoreRows, chunkSize,
                 queryDuration, requestStatusMessage, noLoader, actions, pc,
                 diffs, dialog, inserted, startRows>>

\* resetData dropping the window requests in flight
resetData_dropsInFlight ==
  /\ rows' = <<>>
  /\ requestStatusMessage' = ""
  /\ queryDuration' = 0
  /\ hasMoreRows' = TRUE
  /\ errorMessage' = ""
  /\ inserted' = {}
  /\ fetches' = EmptyBag
  /\ last' = [op |-> "resetData", gridReset |-> actions]
  /\ UNCHANGED <<columns, editedRows, isLoaderVisible, chunkSize, hasDetails,
                 exception, noLoader, actions, pc, diffs, dialog, startRows>>

(***************************************************************************)
(* handleRefresh = resetData.                                              *)
(***************************************************************************)
resetData ==
  /\ rows' = <<>>
  /\ requestStatusMessage' = ""
  /\ queryDuration' = 0
  /\ hasMoreRows' = TRUE
  /\ errorMessage' = ""
  /\ inserted' = {}
  /\ last' = [op |-> "resetData", gridReset |-> actions]
  /\ UNCHANGED <<columns, editedRows, isLoaderVisible, chunkSize, hasDetails,
                 exception, noLoader, actions, fetches, pc, diffs, dialog,
                 startRows>>

(***************************************************************************)
(* setChunkSize = updateChunkSize.                                         *)
(***************************************************************************)
updateChunkSize(value) ==
  /\ chunkSize' = getDefaultRowsCount(value)
  /\ last' = [op |-> "setChunkSize", value |-> value,
              changeChunkSize |-> IF actions THEN {getDefaultRowsCount(value)}
                                  ELSE {}]
  /\ UNCHANGED <<rows, columns, editedRows, hasMoreRows, isLoaderVisible,
                 queryDuration, requestStatusMessage, errorMessage, hasDetails,
                 exception, noLoader, actions, fetches, pc, diffs, dialog,
                 inserted, startRows>>

(***************************************************************************)
(* onShowDetails: opens the details dialog iff an exception is kept.       *)
(***************************************************************************)
onShowDetails ==
  /\ last' = [op |-> "onShowDetails", opened |-> exception # NoException]
  /\ UNCHANGED <<rows, columns, editedRows, hasMoreRows, isLoaderVisible,
                 chunkSize, queryDuration, requestStatusMessage, errorMessage,
                 hasDetails, exception, noLoader, actions, fetches, pc, diffs,
                 dialog, inserted, startRows>>

\* onCellEditingStopped writing the value into the row store as well
onCellEditingStopped_writesStore(rowNumber, colNumber, value) ==
  /\ actions
  /\ getRow(rows, rowNumber) # Undef
  /\ editedRows' = editCellValue(editedRows, rows, rowNumber, colNumber, value)
  /\ rows' = [rows EXCEPT ![rowNumber + 1][colNumber] = value]
  /\ last' = [op |-> "onCellEditingStopped", rowNumber |-> rowNumber,
              colNumber |-> colNumber, value |-> value]
  /\ UNCHANGED <<columns, hasMoreRows, isLoaderVisible, chunkSize,
                 queryDuration, requestStatusMessage, errorMessage, hasDetails,
                 exception, noLoader, actions, fetches, pc, diffs, dialog,
                 inserted, startRows>>

(***************************************************************************)
(* onCellEditingStopped: the grid edits a cell of a row it shows.          *)
(***************************************************************************)
onCellEditingStopped(rowNumber, colNumber, value) ==
  /\ actions
  /\ getRow(rows, rowNumber) # Undef
  /\ editedRows' = editCellValue(editedRows, rows, rowNumber, colNumber, value)
  /\ last' = [op |-> "onCellEditingStopped", rowNumber |-> rowNumber,
              colNumber |-> colNumber, value |-> value]
  /\ UNCHANGED <<rows, columns, hasMoreRows, isLoaderVisible, chunkSize,
                 queryDuration, requestStatusMessage, errorMessage, hasDetails,
                 exception, noLoader, actions, fetches, pc, diffs, dialog,
                 inserted, startRows>>

(***************************************************************************)
(* onEditCancel: revertChanges(getChanges()).                              *)
(***************************************************************************)
onEditCancel ==
  /\ actions
  /\ editedRows' = cancelChanges(editedRows)
  /\ last' = [op |-> "onEditCancel",
              updateRowValue |->
                updateAgGridRows(initialRows(getChanges(editedRows)), actions)]
  /\ UNCHANGED <<rows, columns, hasMoreRows, isLoaderVisible, chunkSize,
                 queryDuration, requestStatusMessage, errorMessage, hasDetails,
                 exception, noLoader, actions, fetches, pc, diffs, dialog,
                 inserted, startRows>>

(***************************************************************************)
(* onSaveChanges, up to the first await: nothing pending returns at once,  *)
(* otherwise trySaveChanges sets the loader flag and calls saveChanges.    *)
(* The grid offers one save at a time.                                     *)
(***************************************************************************)
onSaveChanges ==
  /\ actions
  /\ pc = "Idle"
  /\ IF Len(getChanges(editedRows)) = 0
       THEN /\ last' = [op |-> "onSaveChanges", started |-> FALSE]
            /\ UNCHANGED <<isLoaderVisible, pc, diffs, startRows>>
       ELSE /\ diffs' = getChanges(editedRows)
            /\ isLoaderVisible' = TRUE
            /\ pc' = "Saving"
            /\ startRows' = rows
            /\ last' = [op |-> "onSaveChanges", started |-> TRUE]
  /\ UNCHANGED <<rows, columns, editedRows, hasMoreRows, chunkSize,
                 queryDuration, requestStatusMessage, errorMessage, hasDetails,
                 exception, noLoader, actions, fetches, dialog, inserted>>

\* what saveChanges(diffs) may resolve with (columns and isFullyLoaded of the
\* result are not read)
SaveResults == [rows : RowSeqs(MaxRows), info : ServerInfos]

\* the catch block of onSaveChanges: the ErrorDialog opened for an exception
ErrorDialogFor(e) ==
  [open |-> TRUE,
   message |-> errorText(e),
   onShowDetails |-> IF e.kind = "GQLError" THEN e.details ELSE FALSE,
   exception |-> e]

\* trySaveChanges calling cancelChanges before zipDiffAndResults
trySaveChanges_cancelFirst(df, data) ==
  IF Len(df) # Len(data.rows)
    THEN [thrown |-> TRUE,
          editedRows |-> cancelChanges(editedRows),
          rows |-> rows,
          updateRowValue |-> <<>>,
          errorMessage |-> errorMessage,
          queryDuration |-> queryDuration,
          requestStatusMessage |-> requestStatusMessage]
    ELSE LET someRows == zipDiffAndResults(df, data.rows)
             info == updateInfo(data.info.statusMessage, data.info.duration)
         IN [thrown |-> FALSE,
             editedRows |-> cancelChanges(editedRows),
             rows |-> updateRows(rows, someRows),
             updateRowValue |-> updateAgGridRows(someRows, actions),
             errorMessage |-> "",
             queryDuration |-> info.queryDuration,
             requestStatusMessage |-> info.requestStatusMessage]

\* the body of trySaveChanges once saveChanges resolved with data, applied
\* to the pending diffs df: zipDiffAndResults throws on different lengths,
\* before anything is written; otherwise cancelChanges, updateRows,
\* updateAgGridRows, clearErrors, updateInfo
trySaveChanges(df, data) ==
  IF Len(df) # Len(data.rows)
    THEN [thrown |-> TRUE,
          editedRows |-> editedRows,
          rows |-> rows,
          updateRowValue |-> <<>>,
          errorMessage |-> errorMessage,
          queryDuration |-> queryDuration,
          requestStatusMessage |-> requestStatusMessage]
    ELSE LET someRows == zipDiffAndResults(df, data.rows)
             info == updateInfo(data.info.statusMessage, data.info.duration)
         IN [thrown |-> FALSE,
             editedRows |-> cancelChanges(editedRows),
             rows |-> updateRows(rows, someRows),
             updateRowValue |-> updateAgGridRows(someRows, actions),
             errorMessage |-> "",
             queryDuration |-> info.queryDuration,
             requestStatusMessage |-> info.requestStatusMessage]

(***************************************************************************)
(* trySaveChanges after saveChanges resolved.  Equal lengths: reconcile    *)
(* and return.  Different lengths: zipDiffAndResults throws, finally       *)
(* clears the loader flag and the catch block of onSaveChanges opens the   *)
(* ErrorDialog.                                                            *)
(***************************************************************************)
SaveResolved(data) ==
  /\ pc = "Saving"
  /\ LET r == trySaveChanges(diffs, data)
     IN /\ editedRows' = r.editedRows
        /\ rows' = r.rows
        /\ errorMessage' = r.errorMessage
        /\ queryDuration' = r.queryDuration
        /\ requestStatusMessage' = r.requestStatusMessage
        /\ last' = [op |-> "saveResolved", committed |-> ~r.thrown,
                    returned |-> data.rows,
                    updateRowValue |-> r.updateRowValue]
        /\ IF r.thrown
             THEN /\ dialog' = ErrorDialogFor(MismatchError)
                  /\ pc' = "AwaitingUserDecision"
                  /\ UNCHANGED <<diffs, startRows>>
             ELSE /\ pc' = "Idle"
                  /\ diffs' = <<>>
                  /\ startRows' = <<>>
                  /\ UNCHANGED dialog
  /\ isLoaderVisible' = FALSE
  /\ UNCHANGED <<columns, hasMoreRows, chunkSize, hasDetails, exception,
                 noLoader, actions, fetches, inserted>>

\* onSaveChanges without its catch block: the rejection leaves the handler
SaveRejected_noCatch(e) ==
  /\ pc = "Saving"
  /\ isLoaderVisible' = FALSE
  /\ pc' = "Idle"
  /\ diffs' = <<>>
  /\ startRows' = <<>>
  /\ last' = [op |-> "saveRejected"]
  /\ UNCHANGED <<rows, columns, editedRows, hasMoreRows, chunkSize,
                 queryDuration, requestStatusMessage, errorMessage, hasDetails,
                 exception, noLoader, actions, fetches, dialog, inserted>>

\* trySaveChanges without its finally block
SaveRejected_noFinally(e) ==
  /\ pc = "Saving"
  /\ dialog' = ErrorDialogFor(e)
  /\ pc' = "AwaitingUserDecision"
  /\ last' = [op |-> "saveRejected"]
  /\ UNCHANGED <<rows, columns, editedRows, hasMoreRows, isLoaderVisible,
                 chunkSize, queryDuration, requestStatusMessage, errorMessage,
                 hasDetails, exception, noLoader, actions, fetches, diffs,
                 inserted, startRows>>

(***************************************************************************)
(* trySaveChanges after saveChanges rejected: finally clears the loader    *)
(* flag, the catch block of onSaveChanges opens the ErrorDialog.           *)
(***************************************************************************)
SaveRejected(e) ==
  /\ pc = "Saving"
  /\ isLoaderVisible' = FALSE
  /\ dialog' = ErrorDialogFor(e)
  /\ pc' = "AwaitingUserDecision"
  /\ last' = [op |-> "saveRejected"]
  /\ UNCHANGED <<rows, columns, editedRows, hasMoreRows, chunkSize,
                 queryDuration, requestStatusMessage, errorMessage, hasDetails,
                 exception, noLoader, actions, fetches, diffs, inserted,
                 startRows>>

(***************************************************************************)
(* The ErrorDialog's onShowDetails callback, present iff hasDetails.       *)
(***************************************************************************)
DialogShowDetails ==
  /\ pc = "AwaitingUserDecision"
  /\ dialog.onShowDetails
  /\ last' = [op |-> "dialogShowDetails"]
  /\ UNCHANGED <<rows, columns, editedRows, hasMoreRows, isLoaderVisible,
                 chunkSize, queryDuration, requestStatusMessage, errorMessage,
                 hasDetails, exception, noLoader, actions, fetches, pc, diffs,
                 dialog, inserted, startRows>>

(***************************************************************************)
(* The dialog resolved with tryAgain = true: the loop calls trySaveChanges *)
(* again with the same diffs.                                              *)
(***************************************************************************)
DialogRetry ==
  /\ pc = "AwaitingUserDecision"
  /\ dialog' = NoDialog
  /\ isLoaderVisible' = TRUE
  /\ pc' = "Saving"
  /\ last' = [op |-> "dialogRetry", after |-> dialog.exception]
  /\ UNCHANGED <<rows, columns, editedRows, hasMoreRows, chunkSize,
                 queryDuration, requestStatusMessage, errorMessage, hasDetails,
                 exception, noLoader, actions, fetches, diffs, inserted,
                 startRows>>

\* the tryAgain = false branch without its return: after revertChanges the
\* loop calls trySaveChanges again
DialogDecline_noReturn ==
  /\ pc = "AwaitingUserDecision"
  /\ dialog' = NoDialog
  /\ editedRows' = cancelChanges(editedRows)
  /\ isLoaderVisible' = TRUE
  /\ pc' = "Saving"
  /\ last' = [op |-> "revertChanges",
              updateRowValue |-> updateAgGridRows(initialRows(diffs), actions)]
  /\ UNCHANGED <<rows, columns, hasMoreRows, chunkSize, queryDuration,
                 requestStatusMessage, errorMessage, hasDetails, exception,
                 noLoader, actions, fetches, diffs, inserted, startRows>>

(***************************************************************************)
(* The dialog resolved with tryAgain = false: revertChanges(diffs).        *)
(***************************************************************************)
DialogDecline ==
  /\ pc = "AwaitingUserDecision"
  /\ dialog' = NoDialog
  /\ editedRows' = cancelChanges(editedRows)
  /\ pc' = "Idle"
  /\ diffs' = <<>>
  /\ startRows' = <<>>
  /\ last' = [op |-> "revertChanges",
              updateRowValue |-> updateAgGridRows(initialRows(diffs), actions)]
  /\ UNCHANGED <<rows, columns, hasMoreRows, isLoaderVisible, chunkSize,
                 queryDuration, requestStatusMessage, errorMessage, hasDetails,
                 exception, noLoader, actions, fetches, inserted>>

(***************************************************************************)
(* The fetch side of the table view: window requests with every kind of    *)
(* response and failure, refresh and the error details.  The grid neither  *)
(* edits nor saves here.  The chunk size is read by no handler; its setter *)
(* is not part of this specification.                                      *)
(***************************************************************************)
Next ==
  \/ AttachGrid
  \/ \E w \in Windows : RequestData(w)
  \/ \E w \in Windows : \E response \in Responses(w) : FetchResolved(w, response)
  \/ \E w \in Windows : \E e \in RemoteErrors : FetchRejected(w, e)
  \/ resetData
  \/ onShowDetails

Spec == Init /\ [][Next]_vars

(***************************************************************************)
(* The edit side of the table view: cell edits, cancel and the commit      *)
(* cycle, with window requests going on at the same time.  The grid        *)
(* serializes its window requests (one awaits requestDataAsync at a time), *)
(* edits the first column, and the user refreshes between editing sessions *)
(* (nothing pending, no cycle running).  The view starts without           *)
(* initialState and the remote side answers the window requests with one   *)
(* column set, one status and one kind of error.                           *)
(***************************************************************************)
PlainResponses(w) ==
  {r \in Responses(w) : r.columns = <<"id", "name">> /\ r.info.duration = 7}

PlainErrors == {e \in RemoteErrors : e.kind = "Error"}

\* the plain responses whose rows are all alike
AlikeResponses(w) ==
  {r \in PlainResponses(w) : \A k \in 1..Len(r.rows) : r.rows[k] = <<"a", "a">>}

InitSave ==
  /\ noLoader \in BOOLEAN
  /\ Fresh
  /\ editedRows = <<>>
  /\ isLoaderVisible = FALSE
  /\ chunkSize = getDefaultRowsCount(0)
  /\ errorMessage = ""
  /\ hasDetails = FALSE
  /\ exception = NoException
  /\ actions = FALSE
  /\ fetches = EmptyBag
  /\ pc = "Idle"
  /\ diffs = <<>>
  /\ dialog = NoDialog
  /\ last = [op |-> "constructor"]
  /\ inserted = {}
  /\ startRows = <<>>

NextSave ==
  \/ AttachGrid
  \/ \E w \in Windows : fetches = EmptyBag /\ RequestData(w)
  \/ \E w \in Windows : \E response \in PlainResponses(w) :
       FetchResolved(w, response)
  \/ \E w \in Windows : \E e \in PlainErrors : FetchRejected(w, e)
  \/ pc = "Idle" /\ editedRows = <<>> /\ resetData
  \/ \E r \in 0..(MaxRows - 1) : \E c \in {1} : \E v \in EditValues :
       onCellEditingStopped(r, c, v)
  \/ onEditCancel
  \/ onSaveChanges
  \/ \E data \in SaveResults : SaveResolved(data)
  \/ \E e \in RemoteErrors : SaveRejected(e)
  \/ DialogShowDetails
  \/ DialogRetry
  \/ DialogDecline

SpecSave == InitSave /\ [][NextSave]_vars

(***************************************************************************)
(* The window cache alone: window requests, several in flight at once,     *)
(* their responses and failures, and refresh.  The view starts without     *)
(* initialState; the column set, the status and the kind of error, which   *)
(* the cache test does not read, are the plain ones.                       *)
(***************************************************************************)
NextWindows ==
  \/ AttachGrid
  \/ \E w \in Windows : RequestData(w)
  \/ \E w \in Windows : \E response \in PlainResponses(w) :
       FetchResolved(w, response)
  \/ \E w \in Windows : \E e \in PlainErrors : FetchRejected(w, e)
  \/ resetData

SpecWindows == InitSave /\ [][NextWindows]_vars

(***************************************************************************)
(* The chunk size alone: setChunkSize with every kind of count.            *)
(***************************************************************************)
ChunkSizeInputs ==
  ((0 - 3)..3) \cup ((fetchDefault - 30)..(fetchDefault + 30))
               \cup ((fetchMax - 3)..(fetchMax + 3))

NextChunkSize ==
  \/ AttachGrid
  \/ \E value \in ChunkSizeInputs : updateChunkSize(value)

SpecChunkSize == InitSave /\ [][NextChunkSize]_vars

(***************************************************************************)
(* Properties.                                                             *)
(***************************************************************************)
\* the row indices of the window a request names
WindowOf(offset, count) == offset..(offset + count - 1)

\* C1 (SpecWindows, also Spec): a window request over indices that fetches have merged since
\* the last resetData is answered from the store: no requestDataAsync call
\* is added and the loader flag is left as it was.
C1_CacheCorrectness ==
  [][(/\ last'.op = "onRequestData"
      /\ WindowOf(last'.offset, last'.count) \subseteq inserted)
     => (/\ last'.hit
         /\ fetches' = fetches
         /\ isLoaderVisible' = isLoaderVisible)]_vars

\* C1 witness: a two-row window answered from the store, while more rows
\* remain on the remote side.
C1_Witness ==
  /\ last.op = "onRequestData"
  /\ last.hit
  /\ last.count = 2
  /\ WindowOf(last.offset, last.count) \subseteq inserted
  /\ hasMoreRows

\* C2 (SpecWindows, also Spec): a fetch response whose range offset + number of rows does not
\* exceed the row count leaves hasMoreRows as it was, whatever isFullyLoaded
\* it carries.
C2_KnownRangeKeepsHasMoreRows ==
  [][(/\ last'.op = "fetchResolved"
      /\ last'.offset + last'.n <= Len(rows))
     => hasMoreRows' = hasMoreRows]_vars

\* C2 witness: the table is fully loaded, a response inside the known rows
\* says it is not, and the table is still fully loaded.
C2_Witness ==
  /\ last.op = "fetchResolved"
  /\ last.offset + last.n < Len(rows)
  /\ ~last.isFullyLoaded
  /\ ~hasMoreRows

\* C3 (Spec): once hasMoreRows is false, only resetData makes it true again.
C3_OnlyResetReopens ==
  [][(~hasMoreRows /\ hasMoreRows') => last'.op = "resetData"]_vars

\* the row indices of a diff set
RowIndices(df) == {df[k].rowIndex : k \in 1..Len(df)}

\* C4 (SpecSave): when saveChanges resolves with as many rows as there are
\* diffs, the i-th returned row is in the store at diffs[i].rowIndex and was
\* sent to the grid by updateRowValue at that index, the grid got no other
\* call, no other store row changed and nothing is pending afterwards.
C4_CommitReconciliation ==
  [][(/\ last'.op = "saveResolved"
      /\ Len(last'.returned) = Len(diffs))
     => (/\ last'.committed
         /\ DOMAIN last'.updateRowValue = RowIndices(diffs)
         /\ \A i \in 1..Len(diffs) :
              /\ getRow(rows', diffs[i].rowIndex) = last'.returned[i]
              /\ last'.updateRowValue[diffs[i].rowIndex] = last'.returned[i]
         /\ \A j \in 0..(MaxRows - 1) :
              j \notin RowIndices(diffs) => getRow(rows', j) = getRow(rows, j)
         /\ editedRows' = <<>>)]_vars

\* C4 witness: a commit of two diffs, row 1 edited before row 0, with two
\* different returned rows: the first went to row 1, the second to row 0.
C4_Witness ==
  /\ last.op = "saveResolved"
  /\ last.committed
  /\ Len(last.returned) = 2
  /\ last.returned[1] # last.returned[2]
  /\ getRow(rows, 1) = last.returned[1]
  /\ getRow(rows, 0) = last.returned[2]
  /\ editedRows = <<>>

\* C5 (SpecSave): when saveChanges resolves with a number of rows different
\* from the number of diffs, the attempt writes nothing: the store, the
\* pending set, status, duration and the error fields are as before and the
\* grid gets no updateRowValue.
C5_MismatchWritesNothing ==
  [][(/\ last'.op = "saveResolved"
      /\ Len(last'.returned) # Len(diffs))
     => (/\ ~last'.committed
         /\ rows' = rows
         /\ DOMAIN last'.updateRowValue = {}
         /\ editedRows' = editedRows
         /\ requestStatusMessage' = requestStatusMessage
         /\ queryDuration' = queryDuration
         /\ errorMessage' = errorMessage
         /\ hasDetails' = hasDetails)]_vars

\* C5 witness: a save resolved with one row too many while an edit was
\* pending and a status was shown; the edit is still pending.
C5_Witness ==
  /\ last.op = "saveResolved"
  /\ ~last.committed
  /\ Len(last.returned) = Len(diffs) + 1
  /\ editedRows # <<>>
  /\ requestStatusMessage = "ok"

\* C6 (SpecSave): a length mismatch is not retryable: the retry dialog is
\* never open for it and no retry follows it.
C6_MismatchNotRetryable ==
  /\ ~(pc = "AwaitingUserDecision" /\ dialog.exception = MismatchError)
  /\ ~(last.op = "dialogRetry" /\ last.after = MismatchError)

\* the grid was sent updateRowValue(rowIndex, source) for every diff of df,
\* and nothing else
RevertedTo(df, calls) ==
  /\ DOMAIN calls = RowIndices(df)
  /\ \A k \in 1..Len(df) : calls[df[k].rowIndex] = df[k].source

\* C7 as claimed (SpecSave): after a declined retry the grid got every
\* diff's source row, nothing is pending and the row store is what it was
\* when the commit cycle started; likewise for onEditCancel.
C7_RevertLeavesStartStore ==
  [][/\ last'.op = "revertChanges"
          => (/\ RevertedTo(diffs, last'.updateRowValue)
              /\ editedRows' = <<>>
              /\ rows' = startRows)
     /\ last'.op = "onEditCancel"
          => (/\ RevertedTo(editedRows, last'.updateRowValue)
              /\ editedRows' = <<>>
              /\ rows' = rows)]_vars

\* C7 amended (SpecSave): after a declined retry the grid got every diff's
\* source row and nothing is pending, likewise for onEditCancel; and no step
\* of the cycle that does not commit (failed attempt, dialog, retry,
\* revert, cancel) changes the row store.
C7_RevertFidelity ==
  [][/\ last'.op = "revertChanges"
          => (/\ RevertedTo(diffs, last'.updateRowValue)
              /\ editedRows' = <<>>
              /\ rows' = rows)
     /\ last'.op = "onEditCancel"
          => (/\ RevertedTo(editedRows, last'.updateRowValue)
              /\ editedRows' = <<>>
              /\ rows' = rows)
     /\ (pc = "Saving" /\ pc' = "AwaitingUserDecision") => rows' = rows
     /\ last'.op \in {"dialogRetry", "dialogShowDetails"} => rows' = rows]_vars

\* C7 witness: a declined retry that sent two source rows back to the grid.
C7_Witness ==
  /\ last.op = "revertChanges"
  /\ DOMAIN last.updateRowValue = {0, 1}
  /\ editedRows = <<>>
  /\ pc = "Idle"

\* C8 (SpecSave): the loader flag is true only while a window request awaits
\* requestDataAsync or a save attempt awaits saveChanges.
C8_LoaderOnlyInFlight ==
  isLoaderVisible => (fetches # EmptyBag \/ pc = "Saving")

\* C8 witness: a failed save attempt, the cycle waiting for the user's
\* decision, nothing in flight and the loader flag false.
C8_Witness ==
  /\ last.op = "saveRejected"
  /\ pc = "AwaitingUserDecision"
  /\ fetches = EmptyBag
  /\ ~isLoaderVisible

\* C9 (SpecSave): the loader flag is true for as long as a save attempt
\* awaits saveChanges.
C9_LoaderDuringSave ==
  pc = "Saving" => isLoaderVisible

\* C10 (Spec): right after resetData the session state is that of a fresh
\* model without initialState.
C10_ResetEqualsFresh ==
  last.op = "resetData"
    => (/\ errorMessage = ""
        /\ hasDetails = FALSE
        /\ requestStatusMessage = ""
        /\ queryDuration = 0
        /\ hasMoreRows = TRUE
        /\ rows = <<>>)

\* C11 (Spec): right after a window request completed its remote fetch
\* successfully, errorMessage is empty, hasDetails is false and no exception
\* is kept for onShowDetails to open.
C11_SuccessClearsErrors ==
  last.op = "fetchResolved"
    => (/\ errorMessage = ""
        /\ hasDetails = FALSE
        /\ exception = NoException)

(***************************************************************************)
(* Failing window requests: window requests, several in flight at once,    *)
(* answered with rows that are all alike or rejected with every kind of    *)
(* error, and refresh.  The view starts without initialState.              *)
(***************************************************************************)
NextErrors ==
  \/ AttachGrid
  \/ \E w \in Windows : RequestData(w)
  \/ \E w \in Windows : \E response \in AlikeResponses(w) :
       FetchResolved(w, response)
  \/ \E w \in Windows : \E e \in RemoteErrors : FetchRejected(w, e)
  \/ resetData

SpecErrors == InitSave /\ [][NextErrors]_vars

\* C12 (SpecErrors, also Spec): when requestDataAsync rejects, errorMessage
\* is the text of the error, hasDetails is true iff the error is a GQLError
\* that has details, the error thrown on is the rejected one, the loader
\* flag is false, the request is gone from the calls in flight and no other
\* call is added, and the rows, the columns and hasMoreRows stay as they
\* were.
C12_FetchFailure ==
  [][last'.op = "fetchRejected"
     => (/\ last'.thrown \in RemoteErrors
         /\ errorMessage' = errorText(last'.thrown)
         /\ errorMessage' # ""
         /\ hasDetails' = (last'.thrown.kind = "GQLError" /\ last'.thrown.details)
         /\ isLoaderVisible' = FALSE
         /\ fetches' = fetches (-) SetToBag({[offset |-> last'.offset,
                                              count |-> last'.count]})
         /\ BagCardinality(fetches') = BagCardinality(fetches) - 1
         /\ rows' = rows
         /\ columns' = columns
         /\ hasMoreRows' = hasMoreRows)]_vars

\* C12 witness: a window request failed with a GQLError without details
\* while rows were in the store and another request was in flight; the
\* rows are there, the other request still waits and hasDetails is false.
C12_Witness ==
  /\ last.op = "fetchRejected"
  /\ last.thrown = [kind |-> "GQLError", details |-> FALSE]
  /\ errorMessage = "GQLError text"
  /\ ~hasDetails
  /\ ~isLoaderVisible
  /\ Len(rows) > 0
  /\ BagCardinality(fetches) = 1

(***************************************************************************)
(* The edit side with a commit cycle that is driven on: every saveChanges  *)
(* promise settles, every ErrorDialog is answered, and the user who is     *)
(* asked again and again at some point declines.                           *)
(***************************************************************************)
SaveSettles ==
  \/ \E data \in SaveResults : SaveResolved(data)
  \/ \E e \in RemoteErrors : SaveRejected(e)

DialogResolves == DialogRetry \/ DialogDecline

SpecSaveFair ==
  /\ InitSave
  /\ [][NextSave]_vars
  /\ WF_vars(SaveSettles)
  /\ WF_vars(DialogResolves)
  /\ SF_vars(DialogDecline)

\* C13 (SpecSaveFair): a running commit cycle ends, and it ends only by a
\* save attempt that committed or by the revert after a declined retry; a
\* failed attempt leads to the dialog, never out of onSaveChanges.
C13_CycleEnds ==
  /\ (pc # "Idle") ~> (pc = "Idle")
  /\ [][(pc # "Idle" /\ pc' = "Idle")
        => (\/ last'.op = "saveResolved" /\ last'.committed
            \/ last'.op = "revertChanges")]_vars
  /\ [][(pc = "Saving" /\ last'.op \in {"saveResolved", "saveRejected"})
        => (\/ last'.op = "saveResolved" /\ last'.committed /\ pc' = "Idle"
            \/ pc' = "AwaitingUserDecision" /\ dialog'.open)]_vars

\* C13 witness: a cycle over one diff has ended with a commit.
C13_Witness ==
  /\ pc = "Idle"
  /\ last.op = "saveResolved"
  /\ last.committed
  /\ Len(last.returned) = 1
  /\ diffs = <<>>
  /\ dialog = NoDialog

\* C14 (SpecChunkSize): setChunkSize(count) stores 200 for a count of zero
\* and min(max(count, 1), 5000) for any other count, a value within
\* 1..5000, and the only changeChunkSize call the attached grid gets
\* carries the stored value.
C14_ChunkSizeClamped ==
  [][last'.op = "setChunkSize"
     => (/\ chunkSize' = IF last'.value = 0 THEN 200
                         ELSE Min(Max(last'.value, 1), 5000)
         /\ chunkSize' \in 1..5000
         /\ last'.changeChunkSize \subseteq {chunkSize'}
         /\ actions => last'.changeChunkSize = {chunkSize'})]_vars

\* C14 witness: a count above fetchMax was stored as 5000 and the grid was
\* told 5000.
C14_Witness ==
  /\ last.op = "setChunkSize"
  /\ last.value > 5000
  /\ chunkSize = 5000
  /\ last.changeChunkSize = {5000}

(***************************************************************************)
(* Editing sessions: the grid loads rows, edits any cell with either       *)
(* value, several times over, and the session ends by cancel or by a save  *)
(* that commits.  One thing happens at a time: while a window request or   *)
(* a save awaits its promise, the grid neither asks for a window nor edits *)
(* nor cancels.                                                            *)
(***************************************************************************)
AllEditValues == EditValues \cup {"y"}

PlainSaveResults == {data \in SaveResults : data.info.duration = 7}

Quiet == fetches = EmptyBag /\ pc = "Idle"

NextEdit ==
  \/ AttachGrid
  \/ \E w \in Windows : Quiet /\ RequestData(w)
  \/ \E w \in Windows : \E response \in PlainResponses(w) :
       FetchResolved(w, response)
  \/ \E r \in 0..(MaxRows - 1) : \E c \in Cols : \E v \in AllEditValues :
       Quiet /\ onCellEditingStopped(r, c, v)
  \/ Quiet /\ onEditCancel
  \/ Quiet /\ onSaveChanges
  \/ \E data \in PlainSaveResults :
       Len(data.rows) = Len(diffs) /\ SaveResolved(data)

SpecEdit == InitSave /\ [][NextEdit]_vars

\* the positions of the pending RowDiffs of row r
DiffsOf(ed, r) == {k \in 1..Len(ed) : ed[k].rowIndex = r}

\* C15 (SpecEdit): the pending set never holds two RowDiffs of one row
\* index; an edit of a row without a RowDiff adds one whose source is the
\* row of the store and whose edited row differs from it in the edited cell
\* only; an edit of a row that has a RowDiff keeps its source and changes
\* the edited cell of its edited row only; the RowDiffs of other rows and
\* the row store stay as they were.
C15_DiffIdentity ==
  /\ [](\A j, k \in 1..Len(editedRows) :
          editedRows[j].rowIndex = editedRows[k].rowIndex => j = k)
  /\ [][last'.op = "onCellEditingStopped"
        => LET r == last'.rowNumber
               c == last'.colNumber
               before == DiffsOf(editedRows, r)
               after == DiffsOf(editedRows', r)
           IN /\ rows' = rows
              /\ Cardinality(after) = 1
              /\ Len(editedRows') =
                   Len(editedRows) + (IF before = {} THEN 1 ELSE 0)
              /\ \A k \in after :
                   /\ editedRows'[k].edited[c] = last'.value
                   /\ IF before = {}
                        THEN /\ editedRows'[k].source = getRow(rows, r)
                             /\ \A cc \in Cols \ {c} :
                                  editedRows'[k].edited[cc] = getRow(rows, r)[cc]
                        ELSE \A j \in before :
                               /\ editedRows'[k].source = editedRows[j].source
                               /\ \A cc \in Cols \ {c} :
                                    editedRows'[k].edited[cc] =
                                      editedRows[j].edited[cc]
              /\ \A j \in 1..Len(editedRows) :
                   editedRows[j].rowIndex # r => editedRows'[j] = editedRows[j]
       ]_vars

\* C15 witness: one row edited more than once, in both cells: one RowDiff,
\* its source the untouched row that is still in the store.
C15_Witness ==
  /\ last.op = "onCellEditingStopped"
  /\ Len(editedRows) = 1
  /\ editedRows[1].source = <<"a", "a">>
  /\ editedRows[1].edited = <<"y", "x">>
  /\ getRow(rows, editedRows[1].rowIndex) = <<"a", "a">>

\* C16 (SpecWindows): every row a window request returns from the store is
\* a materialized row, never an unset slot.
C16_CacheServesMaterializedRows ==
  (last.op = "onRequestData" /\ last.hit)
    => \A k \in 1..Len(last.data.rows) : last.data.rows[k] # Undef

\* C17 (SpecWindows, also Spec): a fetch response whose range offset +
\* number of rows exceeds the row count before the merge sets hasMoreRows to
\* the negation of its isFullyLoaded; any other response leaves hasMoreRows
\* as it was.
C17_AdditionAdoptsIsFullyLoaded ==
  [][last'.op = "fetchResolved"
     => IF last'.offset + last'.n > Len(rows)
          THEN hasMoreRows' = ~last'.isFullyLoaded
          ELSE hasMoreRows' = hasMoreRows]_vars

\* C17 witness: a response with no rows at the current end of a non-empty
\* store says the table is fully loaded, and hasMoreRows is still true.
C17_Witness ==
  /\ last.op = "fetchResolved"
  /\ last.n = 0
  /\ last.offset = Len(rows)
  /\ Len(rows) > 0
  /\ last.isFullyLoaded
  /\ hasMoreRows

(***************************************************************************)
(* The columns: window requests answered with either column set and rows   *)
(* that are all alike, refresh, and edits of the first column saved with a *)
(* commit, one operation at a time.                                        *)
(***************************************************************************)
ColumnResponses(w) ==
  {r \in Responses(w) :
     /\ r.info.duration = 7
     /\ \A k \in 1..Len(r.rows) : r.rows[k] = <<"a", "a">>}

NextColumns ==
  \/ AttachGrid
  \/ \E w \in Windows : Quiet /\ RequestData(w)
  \/ \E w \in Windows : \E response \in ColumnResponses(w) :
       FetchResolved(w, response)
  \/ Quiet /\ resetData
  \/ \E r \in 0..(MaxRows - 1) : \E v \in EditValues :
       Quiet /\ onCellEditingStopped(r, 1, v)
  \/ Quiet /\ onSaveChanges
  \/ \E data \in PlainSaveResults :
       Len(data.rows) = Len(diffs) /\ SaveResolved(data)

SpecColumns == InitSave /\ [][NextColumns]_vars

\* C18 (SpecColumns): a fetch response that finds the store without columns
\* makes its columns the store's; once the store has columns, no step (fetch
\* response, save response, resetData or any other) changes them.
C18_SchemaFetchedOnce ==
  [][/\ (last'.op = "fetchResolved" /\ Len(columns) = 0)
          => columns' = last'.columns
     /\ Len(columns) # 0 => columns' = columns]_vars

\* C18 witness: a fetch response with other columns than the store's was
\* merged, and the store's columns are the earlier ones.
C18_Witness ==
  /\ last.op = "fetchResolved"
  /\ Len(columns) # 0
  /\ last.columns # columns
  /\ last.n = 1
  /\ Len(rows) = 1
  /\ requestStatusMessage = "ok"

\* C19 (SpecSave): the position of onSaveChanges changes only from Idle to
\* Saving (the handler started with pending diffs), from Saving to Idle (the
\* attempt committed) or to AwaitingUserDecision (the attempt failed and the
\* dialog was opened), from AwaitingUserDecision to Saving (retry) or to
\* Idle (declined, revertChanges); the dialog is open exactly while the
\* handler awaits the decision, revertChanges runs only on a decline, and
\* while no cycle runs no step but onSaveChanges starts a save attempt or
\* opens a dialog.
C19_CycleTransitions ==
  /\ [](dialog.open <=> pc = "AwaitingUserDecision")
  /\ [][/\ (pc = "Idle" /\ pc' # "Idle")
             => (/\ pc' = "Saving"
                 /\ last'.op = "onSaveChanges"
                 /\ last'.started)
        /\ (pc = "Saving" /\ pc' # "Saving")
             => (\/ /\ pc' = "Idle"
                    /\ last'.op = "saveResolved"
                    /\ last'.committed
                 \/ /\ pc' = "AwaitingUserDecision"
                    /\ \/ last'.op = "saveRejected"
                       \/ last'.op = "saveResolved" /\ ~last'.committed)
        /\ (pc = "AwaitingUserDecision" /\ pc' # "AwaitingUserDecision")
             => (\/ pc' = "Saving" /\ last'.op = "dialogRetry"
                 \/ pc' = "Idle" /\ last'.op = "revertChanges")
        /\ last'.op \in {"saveResolved", "saveRejected"} => pc = "Saving"
        /\ last'.op = "dialogRetry" => pc' = "Saving"
        /\ last'.op = "revertChanges"
             => (pc = "AwaitingUserDecision" /\ pc' = "Idle")]_vars

\* C19 witness: after a rejected save the user chose retry and the second
\* attempt awaits saveChanges, the dialog closed.
C19_Witness ==
  /\ last.op = "dialogRetry"
  /\ last.after.kind = "GQLError"
  /\ pc = "Saving"
  /\ dialog = NoDialog
  /\ isLoaderVisible

\* the session state resetData leaves
FreshlyReset ==
  /\ rows = <<>>
  /\ hasMoreRows
  /\ requestStatusMessage = ""
  /\ queryDuration = 0
  /\ errorMessage = ""

\* C20 (SpecWindows, also Spec): resetData leaves the window requests in
\* flight where they are, and a response that arrives right after a
\* resetData is applied to the emptied store: its rows are in the store at
\* its offset, hasMoreRows is the negation of its isFullyLoaded if the range
\* is an addition, status and duration are the response's.
C20_LateResponseApplied ==
  [][/\ last'.op = "resetData" => fetches' = fetches
     /\ (last'.op = "fetchResolved" /\ last'.afterReset)
          => (/\ rows = <<>>
              /\ Len(rows') = IF last'.n = 0 THEN 0 ELSE last'.offset + last'.n
              /\ \A i \in 0..(Len(rows') - 1) :
                   IF i < last'.offset THEN getRow(rows', i) = Undef
                                       ELSE getRow(rows', i) \in ServerRows
              /\ hasMoreRows' = IF last'.offset + last'.n > 0
                                  THEN ~last'.isFullyLoaded ELSE TRUE
              /\ requestStatusMessage' = last'.info.statusMessage
              /\ queryDuration' = updateInfo(last'.info.statusMessage,
                                             last'.info.duration).queryDuration
              /\ fetches' # fetches)]_vars

\* C20 witness: the response of a request that was in flight when resetData
\* ran has been applied: the store has its row, the table counts as fully
\* loaded and the status is shown, which is not the state resetData left.
C20_Witness ==
  /\ last.op = "fetchResolved"
  /\ last.afterReset
  /\ Len(rows) = 1
  /\ ~hasMoreRows
  /\ requestStatusMessage = "ok"
  /\ queryDuration = 7
  /\ ~FreshlyReset

====
